---------------------------- MODULE Spec2Model ----------------------------
(***************************************************************************)
(* Model of rustify.py: main checks that the input repository exists,      *)
(* traverse_repo walks it, and process_file reads each .py file, sends it  *)
(* to the language model and writes the answer under the output directory. *)
(*                                                                         *)
(* Path strings are sequences of one-character strings, so that endswith,  *)
(* relpath, join and str.replace are computed character by character.      *)
(* The output file system is a set of directories and a map from file      *)
(* paths to contents; contents are sequences of chunks.                    *)
(***************************************************************************)
EXTENDS Naturals, Sequences, FiniteSets

\* Largest number of files in the input tree.
MaxFiles == 3

---------------------------------------------------------------------------
(* String constants of the program *)

\* ".py", the suffix tested at line 56 and the text replaced at line 90
PyExt == <<".", "p", "y">>

\* "_rustified.rs", the replacement text of line 90
RustSuffix == <<"_", "r", "u", "s", "t", "i", "f", "i", "e", "d", ".", "r", "s">>

\* repo_path = "./swarms-master"
repo_path ==
  <<".", "/", "s", "w", "a", "r", "m", "s", "-", "m", "a", "s", "t", "e", "r">>

\* output_dir = "./swarms-master-rustified"
output_dir ==
  <<".", "/", "s", "w", "a", "r", "m", "s", "-", "m", "a", "s", "t", "e", "r",
    "-", "r", "u", "s", "t", "i", "f", "i", "e", "d">>

Sep == <<"/">>

---------------------------------------------------------------------------
(* String and path functions *)

\* str.endswith
EndsWith(s, suf) ==
  /\ Len(s) >= Len(suf)
  /\ SubSeq(s, Len(s) - Len(suf) + 1, Len(s)) = suf

StartsWith(s, pre) ==
  /\ Len(s) >= Len(pre)
  /\ SubSeq(s, 1, Len(pre)) = pre

\* str.replace(old, new): every non-overlapping occurrence, left to right
RECURSIVE Replace(_, _, _)
Replace(s, old, new) ==
  IF Len(s) < Len(old) THEN s
  ELSE IF SubSeq(s, 1, Len(old)) = old
       THEN new \o Replace(SubSeq(s, Len(old) + 1, Len(s)), old, new)
       ELSE <<s[1]>> \o Replace(Tail(s), old, new)

\* os.path.join(a, b) for a relative b and an a that does not end in "/"
PathJoin(a, b) == a \o Sep \o b

\* os.path.join over a list of segments
RECURSIVE JoinAll(_)
JoinAll(segs) ==
  IF Len(segs) = 0 THEN <<>>
  ELSE IF Len(segs) = 1 THEN segs[1]
  ELSE PathJoin(segs[1], JoinAll(Tail(segs)))

\* os.path.relpath(path, start) for a path below start
RelPath(path, start) == SubSeq(path, Len(start) + 2, Len(path))

\* The file system's view of a relative path: a leading "./" names nothing
Norm(p) == IF StartsWith(p, <<".", "/">>) THEN SubSeq(p, 3, Len(p)) ELSE p

\* Positions of the separators of p
SepAt(p) == {i \in 1..Len(p) : p[i] = "/"}

Max(S) == CHOOSE x \in S : \A y \in S : y <= x

\* pathlib's Path(p).parent, as the file system sees it; <<>> is the
\* current directory
Parent(p) ==
  LET q == Norm(p)
  IN  IF SepAt(q) = {} THEN <<>> ELSE SubSeq(q, 1, Max(SepAt(q)) - 1)

\* p and every directory above it, up to the current directory
AncestorsOrSelf(p) ==
  LET q == Norm(p)
  IN  {q} \cup {SubSeq(q, 1, i - 1) : i \in SepAt(q)}

---------------------------------------------------------------------------
(* The files the input repository may hold *)

File(dir, name) == [dir |-> dir, name |-> name]

A_py       == <<"a">> \o PyExt
B_txt      == <<"b", ".", "t", "x", "t">>
A_py_py    == <<"a">> \o PyExt \o PyExt
A_rs_py    == <<"a">> \o RustSuffix \o PyExt
C_py       == <<"c">> \o PyExt
PlainDir   == <<"d">>
PyDir      == <<"d">> \o PyExt
RsDir      == <<"a">> \o RustSuffix

Candidates ==
  { File(<<>>, A_py), File(<<>>, B_txt), File(<<>>, A_py_py),
    File(<<>>, A_rs_py), File(<<PlainDir>>, A_py), File(<<PyDir>>, A_py),
    File(<<RsDir>>, C_py) }

Trees == {t \in SUBSET Candidates : Cardinality(t) <= MaxFiles}

NoFile == File(<<>>, <<>>)

\* What the capability may answer, and what an earlier run left behind
LlmResults == {<<"fn", "main">>}
OldText == <<"old">>

---------------------------------------------------------------------------
(* The output file system: fs.dirs is the set of directories, fs.files    *)
(* maps the path of every regular file to its content.                     *)

EmptyFs == [dirs |-> {}, files |-> <<>>]

IsDir(fs, p) == p = <<>> \/ p \in fs.dirs
IsFile(fs, p) == p \in DOMAIN fs.files

Put(files, p, text) ==
  [q \in DOMAIN files \cup {p} |-> IF q = p THEN text ELSE files[q]]

\* Path(d).mkdir(parents=True, exist_ok=True) succeeds unless a regular
\* file stands where a directory is needed
MkdirCan(fs, d) == \A a \in AncestorsOrSelf(d) : ~IsFile(fs, a)

MkdirDo(fs, d) == [fs EXCEPT !.dirs = @ \cup (AncestorsOrSelf(d) \ {<<>>})]

\* open(p, "w") needs an existing parent directory and no directory at p
OpenCan(fs, p) == IsDir(fs, Parent(p)) /\ ~IsDir(fs, Norm(p))

\* open(p, "w") creates the file or truncates it
OpenDo(fs, p) == [fs EXCEPT !.files = Put(@, Norm(p), <<>>)]

\* f.write(text) followed by the close of the with block
WriteDo(fs, p, text) == [fs EXCEPT !.files = Put(@, Norm(p), text)]

---------------------------------------------------------------------------
(* traverse_repo's path computations and process_file's control flow *)

\* os.walk's root for the directory of f
WalkRoot(f) == JoinAll(<<repo_path>> \o f.dir)

\* line 51
FilePath(f) == PathJoin(WalkRoot(f), f.name)

\* line 52
RelativePath(f) == RelPath(FilePath(f), repo_path)

\* line 53
OutputFilePath(f) == PathJoin(output_dir, RelativePath(f))

\* The filter with its test inverted
EligibleInverted(name) == ~EndsWith(name, PyExt)

\* line 56: file.endswith(".py")
Eligible(name) == EndsWith(name, PyExt)

\* line 90
RustOutputFile(out) == Replace(out, PyExt, RustSuffix)

\* A handler that catches OSError only: the capability's errors escape
InTryOSErrorOnly(stage) == stage \in {"read", "open", "write"}

\* lines 65-68: the stages whose exceptions the try block catches
InTry(stage) == stage \in {"read", "invoke", "open", "write"}

\* A process_file that swallows the capability's failure and writes anyway
ProceedSwallow(stage, ok) ==
  IF ~ok /\ stage # "invoke" THEN "raise"
  ELSE CASE stage = "read"   -> "invoke"
         [] stage = "invoke" -> "open"
         [] stage = "open"   -> "write"
         [] stage = "write"  -> "return"

\* process_file, lines 72-94: the stage that follows a stage
Proceed(stage, ok) ==
  IF ~ok THEN "raise"
  ELSE CASE stage = "read"   -> "invoke"
         [] stage = "invoke" -> "open"
         [] stage = "open"   -> "write"
         [] stage = "write"  -> "return"

\* Where control goes after a stage of process_file
Control(stage, ok) ==
  LET n == Proceed(stage, ok)
  IN  IF n = "raise" THEN (IF InTry(stage) THEN "walk" ELSE "raised")
      ELSE IF n = "return" THEN "walk"
      ELSE n

\* A main without the existence check
RootCheckMissing(exists) == "walk"

\* main, lines 101-102
RootCheck(exists) == IF ~exists THEN "fatal" ELSE "walk"

\* os.walk is top down: the files of a directory come before those of its
\* subdirectories, in the order the operating system lists them
NextFiles(remaining, dir) ==
  LET here == {f \in remaining : f.dir = dir}
  IN  IF here # {} THEN here ELSE remaining

\* traverse_repo returns nothing
None == [none |-> TRUE, processed |-> 0, succeeded |-> 0, failed |-> 0,
         failures |-> {}]

---------------------------------------------------------------------------
(* State *)

VARIABLES
  rootExists,      \* os.path.exists(repo_path) when main starts
  tree,            \* the files below repo_path
  pc,              \* where the program is
  visited,         \* the files os.walk has already yielded
  walkDir,         \* the directory os.walk is listing
  cur,             \* the file of the current loop iteration
  rustified_code,  \* process_file's local of that name
  fs,              \* the output file system
  fs0,             \* the output file system when main started
  fsAtCall,        \* the output file system when process_file was called
  log,             \* what has been done so far, in order
  retval           \* what traverse_repo returned

vars == <<rootExists, tree, pc, visited, walkDir, cur, rustified_code, fs,
          fs0, fsAtCall, log, retval>>

Event(f, op, ok, path) == [file |-> f, op |-> op, ok |-> ok, path |-> path]

\* An earlier, undisturbed run over the same tree, which wrote OldText
RECURSIVE EarlierRun(_, _, _)
EarlierRun(f0, remaining, dir) ==
  IF remaining = {} THEN f0
  ELSE LET f    == CHOOSE x \in NextFiles(remaining, dir) : TRUE
           out  == OutputFilePath(f)
           rest == remaining \ {f}
       IN  IF ~Eligible(f.name) THEN EarlierRun(f0, rest, f.dir)
           ELSE IF ~MkdirCan(f0, Parent(out)) THEN f0
           ELSE LET f1 == MkdirDo(f0, Parent(out))
                    rf == RustOutputFile(out)
                IN  IF OpenCan(f1, rf)
                    THEN EarlierRun(WriteDo(f1, rf, OldText), rest, f.dir)
                    ELSE EarlierRun(f1, rest, f.dir)

Init ==
  /\ rootExists \in BOOLEAN
  /\ tree \in (IF rootExists THEN Trees ELSE {{}})
  /\ \E prior \in BOOLEAN :
       fs = IF prior THEN EarlierRun(EmptyFs, tree, <<>>) ELSE EmptyFs
  /\ fs0 = fs
  /\ fsAtCall = fs
  /\ pc = "main"
  /\ visited = {}
  /\ walkDir = <<>>
  /\ cur = NoFile
  /\ rustified_code = <<>>
  /\ log = <<>>
  /\ retval = None

---------------------------------------------------------------------------
(* Actions *)

\* main, lines 96-107: raise if the repository is missing, else traverse
Main ==
  /\ pc = "main"
  /\ pc' = RootCheck(rootExists)
  /\ UNCHANGED <<rootExists, tree, visited, walkDir, cur, rustified_code, fs,
                 fs0, fsAtCall, log, retval>>

\* traverse_repo, lines 49-57: the next file is not a .py file
WalkSkip ==
  /\ pc = "walk"
  /\ \E f \in NextFiles(tree \ visited, walkDir) :
       /\ ~Eligible(f.name)
       /\ visited' = visited \cup {f}
       /\ walkDir' = f.dir
  /\ UNCHANGED <<rootExists, tree, pc, cur, rustified_code, fs, fs0,
                 fsAtCall, log, retval>>

\* traverse_repo, lines 49-59: the next file is a .py file
WalkBegin ==
  /\ pc = "walk"
  /\ \E f \in NextFiles(tree \ visited, walkDir) :
       /\ Eligible(f.name)
       /\ visited' = visited \cup {f}
       /\ walkDir' = f.dir
       /\ cur' = f
       /\ log' = Append(log, Event(f, "begin", TRUE, <<>>))
  /\ pc' = "mkdir"
  /\ UNCHANGED <<rootExists, tree, rustified_code, fs, fs0, fsAtCall, retval>>

\* traverse_repo, line 62, outside the try block
MakeParent ==
  /\ pc = "mkdir"
  /\ \E env \in BOOLEAN :
       LET d  == Parent(OutputFilePath(cur))
           ok == env /\ MkdirCan(fs, d)
       IN  /\ fs' = IF ok THEN MkdirDo(fs, d) ELSE fs
           /\ log' = Append(log, Event(cur, "mkdir", ok, d))
           /\ pc' = IF ok THEN "read"
                    ELSE IF InTry("mkdir") THEN "walk" ELSE "raised"
  /\ fsAtCall' = fs'
  /\ cur' = IF pc' = "walk" THEN NoFile ELSE cur
  /\ UNCHANGED <<rootExists, tree, visited, walkDir, rustified_code, fs0,
                 retval>>

\* process_file, lines 72-73
ReadFile ==
  /\ pc = "read"
  /\ \E ok \in BOOLEAN :
       /\ log' = Append(log, Event(cur, "read", ok, <<>>))
       /\ pc' = Control("read", ok)
  /\ cur' = IF pc' = "walk" THEN NoFile ELSE cur
  /\ UNCHANGED <<rootExists, tree, visited, walkDir, rustified_code, fs, fs0,
                 fsAtCall, retval>>

\* process_file, line 83
Invoke ==
  /\ pc = "invoke"
  /\ \E ok \in BOOLEAN, r \in LlmResults :
       /\ log' = Append(log, Event(cur, "invoke", ok, <<>>))
       /\ pc' = Control("invoke", ok)
       /\ rustified_code' = IF ok /\ pc' # "walk" THEN r ELSE <<>>
  /\ cur' = IF pc' = "walk" THEN NoFile ELSE cur
  /\ UNCHANGED <<rootExists, tree, visited, walkDir, fs, fs0, fsAtCall,
                 retval>>

\* process_file, lines 90-91: open(rust_output_file, "w")
OpenOut ==
  /\ pc = "open"
  /\ \E env \in BOOLEAN :
       LET p  == RustOutputFile(OutputFilePath(cur))
           ok == env /\ OpenCan(fs, p)
       IN  /\ fs' = IF ok THEN OpenDo(fs, p) ELSE fs
           /\ log' = Append(log, Event(cur, "open", ok, Norm(p)))
           /\ pc' = Control("open", ok)
  /\ cur' = IF pc' = "walk" THEN NoFile ELSE cur
  /\ rustified_code' = IF pc' = "walk" THEN <<>> ELSE rustified_code
  /\ UNCHANGED <<rootExists, tree, visited, walkDir, fs0, fsAtCall, retval>>

\* process_file, line 92 and the end of the with block: n chunks reach the
\* file; the write fails unless all of them do
WriteOut ==
  /\ pc = "write"
  /\ \E n \in 0..Len(rustified_code) :
       LET p  == RustOutputFile(OutputFilePath(cur))
           ok == n = Len(rustified_code)
       IN  /\ fs' = WriteDo(fs, p, SubSeq(rustified_code, 1, n))
           /\ log' = Append(log, Event(cur, "write", ok, Norm(p)))
           /\ pc' = Control("write", ok)
  /\ cur' = IF pc' = "walk" THEN NoFile ELSE cur
  /\ rustified_code' = IF pc' = "walk" THEN <<>> ELSE rustified_code
  /\ UNCHANGED <<rootExists, tree, visited, walkDir, fs0, fsAtCall, retval>>

\* traverse_repo falls off its loop and main prints the completion line
WalkEnd ==
  /\ pc = "walk"
  /\ tree \ visited = {}
  /\ pc' = "done"
  /\ retval' = None
  /\ UNCHANGED <<rootExists, tree, visited, walkDir, cur, rustified_code, fs,
                 fs0, fsAtCall, log>>

Next ==
  \/ Main
  \/ WalkSkip
  \/ WalkBegin
  \/ MakeParent
  \/ ReadFile
  \/ Invoke
  \/ OpenOut
  \/ WriteOut
  \/ WalkEnd

Spec == Init /\ [][Next]_vars

---------------------------------------------------------------------------
(* Reading the log *)

Idx == 1..Len(log)

IsPy(f) == EndsWith(f.name, PyExt)

ProcessStages == {"read", "invoke", "open", "write"}

\* Event i is a failure inside process_file
FailedInProcess(i) == log[i].op \in ProcessStages /\ ~log[i].ok

\* The files whose output was written completely
Succeeded == {log[i].file : i \in {j \in Idx : log[j].op = "write" /\ log[j].ok}}

\* The files for which some stage of process_file raised
Failed == {log[i].file : i \in {j \in Idx : FailedInProcess(j)}}

\* The name with only its trailing ".py" rewritten
TrailingRewrite(name) ==
  SubSeq(name, 1, Len(name) - Len(PyExt)) \o RustSuffix

\* output_dir, the directories of f, and the rewritten name
MirroredPath(f) ==
  Norm(JoinAll(<<output_dir>> \o f.dir \o <<TrailingRewrite(f.name)>>))

LastEvent == log[Len(log)]

---------------------------------------------------------------------------
(* Claims *)

C2_EligibilityFilter ==
  /\ \A i \in Idx : IsPy(log[i].file)
  /\ \A p \in DOMAIN fs.files :
       \/ p \in DOMAIN fs0.files /\ fs.files[p] = fs0.files[p]
       \/ \E i \in Idx :
            /\ log[i].op = "open"
            /\ log[i].ok
            /\ log[i].path = p
            /\ IsPy(log[i].file)

\* C2 witness: a completed run over a tree with a non-.py file in which a
\* .py file was written.
C2_Witness ==
  /\ pc = "done"
  /\ \E f \in tree : ~IsPy(f)
  /\ Succeeded # {}

\* C3: when the input root does not exist, main ends with the fatal error
\* and nothing has been done: no event, no change of the output file
\* system, no file yielded by the walk.
C3_FatalPrecondition ==
  (~rootExists /\ pc # "main") =>
    /\ pc = "fatal"
    /\ log = <<>>
    /\ fs = fs0
    /\ visited = {}

\* C3 witness: the root is missing and main has raised.
C3_Witness == ~rootExists /\ pc = "fatal"

\* C4: every path opened for writing is output_dir, then the directories
\* of the input file, then its name with only the trailing ".py"
\* rewritten.
C4_PathMappingPreservesStructure ==
  \A i \in Idx :
    (log[i].op = "open" /\ log[i].ok) => log[i].path = MirroredPath(log[i].file)

\* C5: whenever process_file is about to open its output file, the parent
\* directory of the path it opens exists.
C5_ParentDirectoryExists ==
  pc = "open" => IsDir(fs, Parent(RustOutputFile(OutputFilePath(cur))))

\* C6: two distinct input files are never written to the same output
\* path, so the number of paths written equals the number of files that
\* succeeded.
C6_OneToOne ==
  /\ \A i \in Idx, j \in Idx :
       ( /\ log[i].op = "write" /\ log[i].ok
         /\ log[j].op = "write" /\ log[j].ok
         /\ log[i].file # log[j].file ) => log[i].path # log[j].path
  /\ Cardinality({log[i].path : i \in {j \in Idx : log[j].op = "write" /\ log[j].ok}})
       = Cardinality(Succeeded)

\* C7: an exception leaves main only if the input root does not exist.
C7_BestEffortExit ==
  pc \in {"fatal", "raised"} => ~rootExists

\* C8: traverse_repo returns a summary with processed = number of .py
\* files, succeeded = files written, failed = files that raised, and one
\* failure record per failed file.
C8_RunSummary ==
  pc = "done" =>
    /\ ~retval.none
    /\ retval.processed = Cardinality({f \in tree : IsPy(f)})
    /\ retval.succeeded = Cardinality(Succeeded)
    /\ retval.failed = Cardinality(Failed)
    /\ retval.processed = retval.succeeded + retval.failed
    /\ retval.failures = Failed

\* C9: at every point of a run, every output file holds either a
\* complete result text or exactly what it held before the run.
C9_AllOrNothingWrite ==
  \A p \in DOMAIN fs.files :
    \/ fs.files[p] \in LlmResults
    \/ p \in DOMAIN fs0.files /\ fs.files[p] = fs0.files[p]

===========================================================================
